---- MODULE Spec2Model ----
(***************************************************************************)
(* Model of the Locust load-test drivers of microservices-resilience:      *)
(*   src/microservices-resilience/locust/locustfile.py                     *)
(*   src/midterm/locust/locustfile-scenarios.py                            *)
(*                                                                         *)
(* One Locust process loads one locustfile.  Simulated users are greenlets *)
(* (gevent): a task body runs without preemption except while it waits for *)
(* the HTTP response, and no task reads order_ids before its request and   *)
(* uses the value after it, so one task execution, with the response it    *)
(* receives as input, is one atomic step.  check_circuit_status only reads  *)
(* and logs a response; its tasks are listed and not run here.             *)
(* ChaosController is a helper no user class calls: a call of one of its   *)
(* functions is a run of its own.                                          *)
(*                                                                         *)
(* Encoding of Python values:                                              *)
(*   an order_id value is an integer: k > 0 is the server-assigned string  *)
(*   "order-k", EmptyString is "", NoneValue is None (dict.get's default   *)
(*   for a missing key) and DummyOrderId is the literal "dummy-order-id".  *)
(***************************************************************************)
EXTENDS Integers, Sequences, FiniteSets, TLC

VARIABLES
    locustfile,   \* the locustfile this process loaded
    order_ids,    \* object (class or instance) -> the list bound to its own attribute order_ids
    created,      \* number of 200 responses to POST /order/create that carried an order id
    last,         \* the last task execution: who ran what, what was sent, received and marked
    shape_class,  \* the LoadTestShape subclass in use
    run_time,     \* LoadTestShape.get_run_time() at the last tick, in whole seconds
    tick_out,     \* what the last tick() returned
    chaos         \* the ChaosController call in progress: function, position, requests attempted

vars ==
    <<locustfile, order_ids, created, last, shape_class, run_time, tick_out,
      chaos>>

(***************************************************************************)
(* Bounds of the model                                                     *)
(***************************************************************************)
\* order ids the server hands out after the cache is full
MaxOverflow == 2
\* run times explored for the load shapes
MaxRunTime == 310
\* depth at which the interpreter raises RecursionError
RecursionLimit == 4

(***************************************************************************)
(* Program constants                                                       *)
(***************************************************************************)
\* len(self.order_ids) < 100
OrderIdLimit == 100
\* order_data.get("order_id") of a dict without that key
NoneValue == -1
\* the empty string as an order_id
EmptyString == 0
\* "/order/dummy-order-id"
DummyOrderId == -2

LocustFiles == {"locustfile.py", "locustfile-scenarios.py"}

\* HTTP status codes the service under test may answer with
Statuses == {200, 400, 404, 500, 503}

(***************************************************************************)
(* Python classes of the two files                                         *)
(***************************************************************************)
ScenarioSubclasses ==
    {"NormalOperationUser", "FailFastUser", "CircuitBreakerInventoryUser",
     "CircuitBreakerPaymentUser", "BulkheadUser", "CombinedChaosUser",
     "MixedWorkloadUser"}

Classes == {"OrderServiceUser", "ResilienceTestUser"} \cup ScenarioSubclasses

\* class C(Base):
Base(c) ==
    IF c \in ScenarioSubclasses THEN "ResilienceTestUser" ELSE "FastHttpUser"

\* the file a class is defined in
FileOf(c) ==
    IF c = "OrderServiceUser" THEN "locustfile.py" ELSE "locustfile-scenarios.py"

\* names bound in a class body
ClassDict(c) ==
    CASE c = "OrderServiceUser" ->
            {"order_ids", "items", "create_order", "get_order"}
      [] c = "ResilienceTestUser" ->
            {"order_ids", "items", "create_valid_order", "get_order_details",
             "check_circuit_status"}
      [] c = "NormalOperationUser" ->
            {"create_order", "get_order", "check_circuits"}
      [] c = "FailFastUser" ->
            {"empty_order", "invalid_quantity", "invalid_price", "missing_item_id"}
      [] c = "CircuitBreakerInventoryUser" ->
            {"create_order_with_failures", "check_circuits"}
      [] c = "CircuitBreakerPaymentUser" ->
            {"create_order_with_failures", "check_circuits"}
      [] c = "BulkheadUser" ->
            {"create_order_concurrent"}
      [] c = "CombinedChaosUser" ->
            {"create_order_with_all_chaos", "get_order", "check_circuits"}
      [] c = "MixedWorkloadUser" ->
            {"create_valid_order", "create_invalid_order", "get_order",
             "check_circuits"}
      [] OTHER -> {}

\* attribute lookup along the method resolution order: the class that binds name
RECURSIVE Resolve(_, _)
Resolve(c, name) ==
    IF c \notin Classes THEN "AttributeError"
    ELSE IF name \in ClassDict(c) THEN c
    ELSE Resolve(Base(c), name)

(***************************************************************************)
(* Simulated users: the instances Locust creates of the user classes       *)
(***************************************************************************)
\* Two users of locustfile.py and one user of each scenario class whose tasks
\* differ; the tasks of the CircuitBreaker and CombinedChaos classes have the
\* bodies of NormalOperationUser's and BulkheadUser's.
Users == {"osu1", "osu2", "normal1", "failfast1", "bulkhead1", "mixed1"}

ClassOf(u) ==
    CASE u \in {"osu1", "osu2"} -> "OrderServiceUser"
      [] u = "normal1"   -> "NormalOperationUser"
      [] u = "failfast1" -> "FailFastUser"
      [] u = "bulkhead1" -> "BulkheadUser"
      [] u = "mixed1"    -> "MixedWorkloadUser"

\* the users of the loaded locustfile
Running == {u \in Users : FileOf(ClassOf(u)) = locustfile}

\* as if __init__ bound a fresh list on every instance (self.order_ids = [])
OrderIdsOwners_PerInstance ==
    {c \in Classes : "order_ids" \in ClassDict(c)} \cup Users

\* the objects whose own namespace binds order_ids: it is assigned in the two
\* class bodies only, never on an instance
OrderIdsOwners == {c \in Classes : "order_ids" \in ClassDict(c)}

\* self.order_ids: the object whose binding an instance's lookup finds
Holder(u) ==
    IF u \in DOMAIN order_ids THEN u ELSE Resolve(ClassOf(u), "order_ids")

\* the list self.order_ids evaluates to
OrderIds(u) == order_ids[Holder(u)]

\* the methods of a class decorated with @task
Tasks(c) ==
    IF c = "ResilienceTestUser" THEN {}
    ELSE ClassDict(c) \ {"order_ids", "items"}

\* what the body of task t of class c does
TaskBody(c, t) ==
    CASE c \in {"OrderServiceUser", "FailFastUser"} -> t
      [] t \in {"create_order", "create_order_with_failures",
                "create_order_concurrent", "create_order_with_all_chaos",
                "create_valid_order"} -> "self.create_valid_order()"
      [] t = "get_order" -> "self.get_order_details()"
      [] t = "check_circuits" -> "self.check_circuit_status()"
      [] OTHER -> t

\* the call self.create_valid_order() on an instance of class c, at call depth
\* depth: the function that finally runs, or the exception the call raises
RECURSIVE CallCreateValidOrder(_, _)
CallCreateValidOrder(c, depth) ==
    LET f == Resolve(c, "create_valid_order") IN
    IF depth > RecursionLimit THEN "RecursionError"
    ELSE IF f = "ResilienceTestUser" THEN "ResilienceTestUser.create_valid_order"
    ELSE IF f = "MixedWorkloadUser" THEN CallCreateValidOrder(c, depth + 1)
    ELSE "AttributeError"

(***************************************************************************)
(* Responses                                                               *)
(***************************************************************************)
\* a body that was not read
NoBody == [kind |-> "unread", order_id |-> NoneValue]

\* the bodies a response to POST /order/create may carry.  A 200: text that
\* is no JSON, JSON that is no object, an object without order_id, with an
\* empty one, or with the next id the server assigns.  Any other status: an
\* object with an order_id (no code reads the body of such a response)
CreateBodies(status, next) ==
    IF status = 200
    THEN {[kind |-> "invalid_json", order_id |-> NoneValue],
          [kind |-> "not_dict", order_id |-> NoneValue]}
         \cup {[kind |-> "dict", order_id |-> v] : v \in {NoneValue, EmptyString, next}}
    ELSE {[kind |-> "dict", order_id |-> next]}

\* if order_id:
Truthy(v) == v \notin {NoneValue, EmptyString}

\* the response is a 200 that hands out a new order id
IssuesId(status, body) ==
    status = 200 /\ body.kind = "dict" /\ Truthy(body.order_id)

(***************************************************************************)
(* Response handling of the two create operations: the new list and the    *)
(* calls of response.success() / response.failure(), in order              *)
(***************************************************************************)
\* create_order with response.success() called before the body is parsed
create_order_SuccessFirst(ids, status, body) ==
    IF status = 200 THEN
        IF body.kind = "invalid_json" \/ body.kind = "not_dict" THEN
            [order_ids |-> ids, marks |-> <<"success", "failure">>, caught |-> TRUE]
        ELSE
            LET order_id == body.order_id
                stored == IF Truthy(order_id)
                          THEN IF Len(ids) < OrderIdLimit
                               THEN Append(ids, order_id) ELSE ids
                          ELSE ids
            IN [order_ids |-> stored, marks |-> <<"success">>, caught |-> FALSE]
    ELSE [order_ids |-> ids, marks |-> <<"failure">>, caught |-> FALSE]

\* create_order without the test "if order_id:"
create_order_NoTruthTest(ids, status, body) ==
    IF status = 200 THEN
        IF body.kind = "invalid_json" \/ body.kind = "not_dict" THEN
            [order_ids |-> ids, marks |-> <<"failure">>, caught |-> TRUE]
        ELSE
            LET order_id == body.order_id
                stored == IF Len(ids) < OrderIdLimit
                          THEN Append(ids, order_id) ELSE ids
            IN [order_ids |-> stored, marks |-> <<"success">>, caught |-> FALSE]
    ELSE [order_ids |-> ids, marks |-> <<"failure">>, caught |-> FALSE]

\* OrderServiceUser.create_order, the with block
create_order(ids, status, body) ==
    IF status = 200 THEN
        IF body.kind = "invalid_json" \/ body.kind = "not_dict" THEN
            \* response.json() or order_data.get raises: except branch
            [order_ids |-> ids, marks |-> <<"failure">>, caught |-> TRUE]
        ELSE
            LET order_id == body.order_id
                stored == IF Truthy(order_id)
                          THEN IF Len(ids) < OrderIdLimit
                               THEN Append(ids, order_id) ELSE ids
                          ELSE ids
            IN [order_ids |-> stored, marks |-> <<"success">>, caught |-> FALSE]
    ELSE [order_ids |-> ids, marks |-> <<"failure">>, caught |-> FALSE]

\* create_valid_order with len(self.order_ids) <= 100
create_valid_order_OffByOne(ids, status, body) ==
    IF status = 200 THEN
        IF body.kind = "invalid_json" \/ body.kind = "not_dict" THEN
            [order_ids |-> ids, marks |-> <<"failure">>, caught |-> TRUE]
        ELSE
            LET order_id == body.order_id
                stored == IF Truthy(order_id) /\ Len(ids) <= OrderIdLimit
                          THEN Append(ids, order_id) ELSE ids
            IN [order_ids |-> stored, marks |-> <<"success">>, caught |-> FALSE]
    ELSE IF status >= 500 THEN
        [order_ids |-> ids, marks |-> <<"success">>, caught |-> FALSE]
    ELSE [order_ids |-> ids, marks |-> <<"failure">>, caught |-> FALSE]

\* create_valid_order with status_code > 500
create_valid_order_Above500(ids, status, body) ==
    IF status = 200 THEN
        IF body.kind = "invalid_json" \/ body.kind = "not_dict" THEN
            [order_ids |-> ids, marks |-> <<"failure">>, caught |-> TRUE]
        ELSE
            LET order_id == body.order_id
                stored == IF Truthy(order_id) /\ Len(ids) < OrderIdLimit
                          THEN Append(ids, order_id) ELSE ids
            IN [order_ids |-> stored, marks |-> <<"success">>, caught |-> FALSE]
    ELSE IF status > 500 THEN
        [order_ids |-> ids, marks |-> <<"success">>, caught |-> FALSE]
    ELSE [order_ids |-> ids, marks |-> <<"failure">>, caught |-> FALSE]

\* ResilienceTestUser.create_valid_order, the with block
create_valid_order(ids, status, body) ==
    IF status = 200 THEN
        IF body.kind = "invalid_json" \/ body.kind = "not_dict" THEN
            [order_ids |-> ids, marks |-> <<"failure">>, caught |-> TRUE]
        ELSE
            LET order_id == body.order_id
                stored == IF Truthy(order_id) /\ Len(ids) < OrderIdLimit
                          THEN Append(ids, order_id) ELSE ids
            IN [order_ids |-> stored, marks |-> <<"success">>, caught |-> FALSE]
    ELSE IF status >= 500 THEN
        [order_ids |-> ids, marks |-> <<"success">>, caught |-> FALSE]
    ELSE [order_ids |-> ids, marks |-> <<"failure">>, caught |-> FALSE]

\* the positions random.choice is let to pick in a list of n entries: the
\* first, the middle and the last
Choices(n) == {1, (n + 1) \div 2, n}

\* a retrieval that may ask for the dummy id whatever the list holds
RetrievalIds_DummyAnyway(ids) ==
    {ids[i] : i \in 1..Len(ids)} \cup {DummyOrderId}

\* the id a retrieval asks for: random.choice(self.order_ids), or the dummy id
RetrievalIds(ids) ==
    IF ids # <<>> THEN {ids[i] : i \in Choices(Len(ids))} ELSE {DummyOrderId}

(***************************************************************************)
(* Requests                                                                *)
(***************************************************************************)
NoRequest == <<>>

PostCreate(payload, nitems) ==
    [method |-> "POST", path |-> "/order/create", order_id |-> NoneValue,
     payload |-> payload, nitems |-> nitems]

GetOrder(id) ==
    [method |-> "GET", path |-> "/order/{id}", order_id |-> id,
     payload |-> "none", nitems |-> 0]

(***************************************************************************)
(* FailFastUser: the marks of each task's with block                       *)
(***************************************************************************)
empty_order(status) ==
    IF status = 400 THEN <<"success">> ELSE <<"failure">>

invalid_quantity(status) ==
    IF status = 400 THEN <<"success">> ELSE <<"failure">>

\* invalid_price accepting every client error
invalid_price_Any4xx(status) ==
    IF status >= 400 /\ status < 500 THEN <<"success">> ELSE <<"failure">>

invalid_price(status) ==
    IF status = 400 THEN <<"success">> ELSE <<"failure">>

missing_item_id(status) ==
    IF status = 400 THEN <<"success">> ELSE <<"failure">>

FailFastTasks ==
    {"empty_order", "invalid_quantity", "invalid_price", "missing_item_id"}

FailFastMarks(t, status) ==
    CASE t = "empty_order"      -> empty_order(status)
      [] t = "invalid_quantity" -> invalid_quantity(status)
      [] t = "invalid_price"    -> invalid_price(status)
      [] t = "missing_item_id"  -> missing_item_id(status)

\* number of items in the payload of a FailFastUser task
FailFastItems(t) == IF t = "empty_order" THEN 0 ELSE 1

\* payloads of MixedWorkloadUser.create_invalid_order, by number of items
InvalidPayloads ==
    {[payload |-> "empty_order", nitems |-> 0],
     [payload |-> "invalid_quantity", nitems |-> 1],
     [payload |-> "invalid_price", nitems |-> 1]}

(***************************************************************************)
(* State machine of the simulated users                                    *)
(***************************************************************************)
NoTask ==
    [user |-> "none", task |-> "none", requests |-> NoRequest, status |-> 0,
     body |-> NoBody, marks |-> <<>>, caught |-> FALSE, raised |-> "none"]

NotTicked == [called |-> FALSE, stop |-> FALSE, users |-> 0, spawn_rate |-> 0]

\* no ChaosController function was called
NoChaos == [fn |-> "none", pc |-> 1, calls |-> <<>>, state |-> "idle"]

Init ==
    /\ locustfile \in LocustFiles
    /\ order_ids = [o \in OrderIdsOwners |-> <<>>]
    /\ created = 0
    /\ last = NoTask
    /\ shape_class = "none"
    /\ run_time = 0
    /\ tick_out = NotTicked
    /\ chaos = NoChaos

ShapeUnchanged ==
    UNCHANGED <<locustfile, shape_class, run_time, tick_out, chaos>>

\* the server has handed out at most OrderIdLimit + MaxOverflow ids
WithinBounds(status, body) ==
    IssuesId(status, body) => created < OrderIdLimit + MaxOverflow

\* a create task of user u: the request, the response and its handling by
\* handler result r
Created(u, t, nitems, status, body, r) ==
    /\ order_ids' = [order_ids EXCEPT ![Holder(u)] = r.order_ids]
    /\ created' = IF IssuesId(status, body) THEN created + 1 ELSE created
    /\ last' = [user |-> u, task |-> t,
                requests |-> <<PostCreate("sample", nitems)>>,
                status |-> status, body |-> body, marks |-> r.marks,
                caught |-> r.caught, raised |-> "none"]

\* OrderServiceUser.create_order
CreateOrder(u) ==
    /\ ClassOf(u) = "OrderServiceUser"
    /\ \E num_items \in 1..3, status \in Statuses :
       \E body \in CreateBodies(status, created + 1) :
          /\ WithinBounds(status, body)
          /\ Created(u, "create_order", num_items, status, body,
                     create_order(OrderIds(u), status, body))
    /\ ShapeUnchanged

\* a retrieval of user u in task t
Retrieved(u, t) ==
    /\ \E id \in RetrievalIds(OrderIds(u)) :
          last' = [user |-> u, task |-> t, requests |-> <<GetOrder(id)>>,
                   status |-> 0, body |-> NoBody, marks |-> <<>>,
                   caught |-> FALSE, raised |-> "none"]
    /\ UNCHANGED <<order_ids, created>>

\* OrderServiceUser.get_order
GetOrderTask(u) ==
    /\ ClassOf(u) = "OrderServiceUser"
    /\ Retrieved(u, "get_order")
    /\ ShapeUnchanged

\* a task whose body is self.create_valid_order(), reaching the base method
CreateValidOrderTask(u, t) ==
    /\ t \in Tasks(ClassOf(u))
    /\ TaskBody(ClassOf(u), t) = "self.create_valid_order()"
    /\ CallCreateValidOrder(ClassOf(u), 1) = "ResilienceTestUser.create_valid_order"
    /\ \E num_items \in 1..3, status \in Statuses :
       \E body \in CreateBodies(status, created + 1) :
          /\ WithinBounds(status, body)
          /\ Created(u, t, num_items, status, body,
                     create_valid_order(OrderIds(u), status, body))
    /\ ShapeUnchanged

\* a task whose body is self.create_valid_order(), when the call raises
CreateValidOrderRaises(u, t) ==
    /\ t \in Tasks(ClassOf(u))
    /\ TaskBody(ClassOf(u), t) = "self.create_valid_order()"
    /\ CallCreateValidOrder(ClassOf(u), 1) # "ResilienceTestUser.create_valid_order"
    /\ last' = [user |-> u, task |-> t, requests |-> NoRequest, status |-> 0,
                body |-> NoBody, marks |-> <<>>, caught |-> FALSE,
                raised |-> CallCreateValidOrder(ClassOf(u), 1)]
    /\ UNCHANGED <<order_ids, created>>
    /\ ShapeUnchanged

\* a task whose body is self.get_order_details()
GetOrderDetailsTask(u, t) ==
    /\ t \in Tasks(ClassOf(u))
    /\ TaskBody(ClassOf(u), t) = "self.get_order_details()"
    /\ Retrieved(u, t)
    /\ ShapeUnchanged

\* the four tasks of FailFastUser
FailFastTask(u, t) ==
    /\ ClassOf(u) = "FailFastUser"
    /\ t \in FailFastTasks
    /\ \E status \in Statuses :
          last' = [user |-> u, task |-> t,
                   requests |-> <<PostCreate(t, FailFastItems(t))>>,
                   status |-> status, body |-> NoBody,
                   marks |-> FailFastMarks(t, status),
                   caught |-> FALSE, raised |-> "none"]
    /\ UNCHANGED <<order_ids, created>>
    /\ ShapeUnchanged

\* MixedWorkloadUser.create_invalid_order
CreateInvalidOrderTask(u) ==
    /\ ClassOf(u) = "MixedWorkloadUser"
    /\ \E p \in InvalidPayloads :
          last' = [user |-> u, task |-> "create_invalid_order",
                   requests |-> <<PostCreate(p.payload, p.nitems)>>,
                   status |-> 0, body |-> NoBody, marks |-> <<>>,
                   caught |-> FALSE, raised |-> "none"]
    /\ UNCHANGED <<order_ids, created>>
    /\ ShapeUnchanged

AllTasks == UNION {Tasks(c) : c \in Classes}

Next ==
    \E u \in Running :
        \/ CreateOrder(u)
        \/ GetOrderTask(u)
        \/ \E t \in AllTasks : CreateValidOrderTask(u, t)
        \/ \E t \in AllTasks : CreateValidOrderRaises(u, t)
        \/ \E t \in AllTasks : GetOrderDetailsTask(u, t)
        \/ \E t \in AllTasks : FailFastTask(u, t)
        \/ CreateInvalidOrderTask(u)

Spec == Init /\ [][Next]_vars

(***************************************************************************)
(* Load shapes                                                             *)
(***************************************************************************)
StepLoadShape_stages ==
    <<[duration |-> 60,  users |-> 10,  spawn_rate |-> 2],
      [duration |-> 120, users |-> 25,  spawn_rate |-> 3],
      [duration |-> 180, users |-> 50,  spawn_rate |-> 5],
      [duration |-> 240, users |-> 75,  spawn_rate |-> 5],
      [duration |-> 300, users |-> 100, spawn_rate |-> 5]>>

SpikeLoadShape_stages ==
    <<[duration |-> 30,  users |-> 10,  spawn_rate |-> 2],
      [duration |-> 60,  users |-> 100, spawn_rate |-> 20],
      [duration |-> 90,  users |-> 10,  spawn_rate |-> 10],
      [duration |-> 120, users |-> 100, spawn_rate |-> 20],
      [duration |-> 150, users |-> 10,  spawn_rate |-> 10]>>

\* return None
TickNone == [called |-> TRUE, stop |-> TRUE, users |-> 0, spawn_rate |-> 0]

\* return (stage["users"], stage["spawn_rate"])
TickStage(stage) ==
    [called |-> TRUE, stop |-> FALSE, users |-> stage.users,
     spawn_rate |-> stage.spawn_rate]

\* StepLoadShape.tick: the for loop from stage i on
RECURSIVE StepLoadShape_loop(_, _)
StepLoadShape_loop(i, t) ==
    IF i > Len(StepLoadShape_stages) THEN TickNone
    ELSE IF t < StepLoadShape_stages[i].duration
         THEN TickStage(StepLoadShape_stages[i])
         ELSE StepLoadShape_loop(i + 1, t)

\* StepLoadShape.tick with run_time <= stage["duration"]
RECURSIVE StepLoadShape_loop_Inclusive(_, _)
StepLoadShape_loop_Inclusive(i, t) ==
    IF i > Len(StepLoadShape_stages) THEN TickNone
    ELSE IF t <= StepLoadShape_stages[i].duration
         THEN TickStage(StepLoadShape_stages[i])
         ELSE StepLoadShape_loop_Inclusive(i + 1, t)

StepLoadShape_tick_Inclusive(t) == StepLoadShape_loop_Inclusive(1, t)

StepLoadShape_tick(t) == StepLoadShape_loop(1, t)

\* SpikeLoadShape.tick: the for loop from stage i on
RECURSIVE SpikeLoadShape_loop(_, _)
SpikeLoadShape_loop(i, t) ==
    IF i > Len(SpikeLoadShape_stages) THEN TickNone
    ELSE IF t < SpikeLoadShape_stages[i].duration
         THEN TickStage(SpikeLoadShape_stages[i])
         ELSE SpikeLoadShape_loop(i + 1, t)

\* SpikeLoadShape.tick with run_time <= stage["duration"]
RECURSIVE SpikeLoadShape_loop_Inclusive(_, _)
SpikeLoadShape_loop_Inclusive(i, t) ==
    IF i > Len(SpikeLoadShape_stages) THEN TickNone
    ELSE IF t <= SpikeLoadShape_stages[i].duration
         THEN TickStage(SpikeLoadShape_stages[i])
         ELSE SpikeLoadShape_loop_Inclusive(i + 1, t)

SpikeLoadShape_tick_Inclusive(t) == SpikeLoadShape_loop_Inclusive(1, t)

SpikeLoadShape_tick(t) == SpikeLoadShape_loop(1, t)

ShapeClasses == {"StepLoadShape", "SpikeLoadShape"}

\* the shape of a run is fixed when the run starts; no user has run yet
ShapeInit ==
    /\ locustfile = "locustfile-scenarios.py"
    /\ order_ids = [o \in OrderIdsOwners |-> <<>>]
    /\ created = 0
    /\ last = NoTask
    /\ shape_class \in ShapeClasses
    /\ run_time = 0
    /\ tick_out = NotTicked
    /\ chaos = NoChaos

UsersUnchanged ==
    UNCHANGED <<locustfile, order_ids, created, last, shape_class, chaos>>

\* the runner calls tick() at a run time t no earlier than the last one
StepTick ==
    /\ shape_class = "StepLoadShape"
    /\ \E t \in run_time..MaxRunTime :
          /\ run_time' = t
          /\ tick_out' = StepLoadShape_tick(t)
    /\ UsersUnchanged

SpikeTick ==
    /\ shape_class = "SpikeLoadShape"
    /\ \E t \in run_time..MaxRunTime :
          /\ run_time' = t
          /\ tick_out' = SpikeLoadShape_tick(t)
    /\ UsersUnchanged

ShapeNext == StepTick \/ SpikeTick

ShapeSpec == ShapeInit /\ [][ShapeNext]_vars

(***************************************************************************)
(* ChaosController                                                         *)
(***************************************************************************)
INVENTORY_SERVICE == "http://localhost:8081"
PAYMENT_SERVICE == "http://localhost:8082"

\* how a toggle request ends: requests.post returns and resp.json() decodes
\* ("ok"), requests.post raises ConnectionError or Timeout, or resp.json()
\* raises JSONDecodeError
ToggleOutcomes == {"ok", "ConnectionError", "Timeout", "JSONDecodeError"}

\* except Exception: the classes the clause catches
CaughtByExceptException(e) ==
    e \in {"ConnectionError", "Timeout", "JSONDecodeError"}

\* a request sent outside any try block: what it raises reaches the caller
PostUncaught(service, path, outcome) ==
    [request |-> [service |-> service, path |-> path],
     outcome |-> outcome,
     log |-> IF outcome = "ok" THEN "info" ELSE "none",
     raised |-> IF outcome = "ok" THEN "none" ELSE outcome]

\* try: resp = requests.post(url, timeout=5); logger.info(resp.json())
\* except Exception as e: logger.error(e)
TryPost(service, path, outcome) ==
    [request |-> [service |-> service, path |-> path],
     outcome |-> outcome,
     log |-> IF outcome = "ok" THEN "info" ELSE "error",
     raised |-> IF outcome = "ok" \/ CaughtByExceptException(outcome)
                THEN "none" ELSE outcome]

enable_inventory_chaos(outcome) ==
    TryPost(INVENTORY_SERVICE, "/chaos/inventory/enable", outcome)

\* disable_inventory_chaos without its try / except
disable_inventory_chaos_Uncaught(outcome) ==
    PostUncaught(INVENTORY_SERVICE, "/chaos/inventory/disable", outcome)

disable_inventory_chaos(outcome) ==
    TryPost(INVENTORY_SERVICE, "/chaos/inventory/disable", outcome)

enable_inventory_slow(outcome) ==
    TryPost(INVENTORY_SERVICE, "/chaos/inventory/slow", outcome)

enable_payment_chaos(outcome) ==
    TryPost(PAYMENT_SERVICE, "/chaos/payment/enable", outcome)

disable_payment_chaos(outcome) ==
    TryPost(PAYMENT_SERVICE, "/chaos/payment/disable", outcome)

enable_payment_slow(outcome) ==
    TryPost(PAYMENT_SERVICE, "/chaos/payment/slow", outcome)

\* the six functions that send one toggle request
ToggleFunctions ==
    {"enable_inventory_chaos", "disable_inventory_chaos",
     "enable_inventory_slow", "enable_payment_chaos", "disable_payment_chaos",
     "enable_payment_slow"}

\* ChaosController.<f>()
CallToggle(f, outcome) ==
    CASE f = "enable_inventory_chaos"  -> enable_inventory_chaos(outcome)
      [] f = "disable_inventory_chaos" -> disable_inventory_chaos(outcome)
      [] f = "enable_inventory_slow"   -> enable_inventory_slow(outcome)
      [] f = "enable_payment_chaos"    -> enable_payment_chaos(outcome)
      [] f = "disable_payment_chaos"   -> disable_payment_chaos(outcome)
      [] f = "enable_payment_slow"     -> enable_payment_slow(outcome)

\* the calls in the body of disable_all_chaos, in order
disable_all_chaos ==
    <<"disable_inventory_chaos", "disable_payment_chaos">>

\* the calls in the body of enable_combined_chaos, in order
enable_combined_chaos ==
    <<"enable_inventory_chaos", "enable_inventory_slow",
      "enable_payment_chaos", "enable_payment_slow">>

\* the toggle calls a ChaosController function makes, in order
ChaosBody(fn) ==
    CASE fn = "disable_all_chaos"     -> disable_all_chaos
      [] fn = "enable_combined_chaos" -> enable_combined_chaos
      [] OTHER                        -> <<fn>>

ChaosFunctions ==
    ToggleFunctions \cup {"disable_all_chaos", "enable_combined_chaos"}

\* a ChaosController function was called; no user and no shape has run
ChaosInit ==
    /\ locustfile = "locustfile-scenarios.py"
    /\ order_ids = [o \in OrderIdsOwners |-> <<>>]
    /\ created = 0
    /\ last = NoTask
    /\ shape_class = "none"
    /\ run_time = 0
    /\ tick_out = NotTicked
    /\ \E fn \in ChaosFunctions :
          chaos = [fn |-> fn, pc |-> 1, calls |-> <<>>, state |-> "running"]

ChaosFrame ==
    UNCHANGED <<locustfile, order_ids, created, last, shape_class, run_time,
                tick_out>>

\* the next toggle call of the running function, with the way its request
\* ends: an exception that leaves the call ends the function; after the last
\* call the function returns
ChaosCall ==
    /\ chaos.state = "running"
    /\ chaos.pc <= Len(ChaosBody(chaos.fn))
    /\ \E outcome \in ToggleOutcomes :
          LET r == CallToggle(ChaosBody(chaos.fn)[chaos.pc], outcome) IN
          chaos' = [fn |-> chaos.fn,
                    pc |-> IF r.raised = "none" THEN chaos.pc + 1 ELSE chaos.pc,
                    calls |-> Append(chaos.calls, r),
                    state |-> IF r.raised # "none" THEN "raised"
                              ELSE IF chaos.pc = Len(ChaosBody(chaos.fn))
                                   THEN "returned" ELSE "running"]
    /\ ChaosFrame

ChaosNext == ChaosCall

ChaosSpec == ChaosInit /\ [][ChaosNext]_vars

(***************************************************************************)
(* Properties                                                              *)
(***************************************************************************)
Range(seq) == {seq[i] : i \in 1..Len(seq)}

\* the last task ran the with block of OrderServiceUser.create_order
RanCreateOrder ==
    /\ last.user \in Users
    /\ ClassOf(last.user) = "OrderServiceUser"
    /\ last.task = "create_order"

\* the last task ran the with block of ResilienceTestUser.create_valid_order
RanCreateValidOrder ==
    /\ last.user \in Users
    /\ TaskBody(ClassOf(last.user), last.task) = "self.create_valid_order()"
    /\ last.requests # NoRequest

RanCreate == RanCreateOrder \/ RanCreateValidOrder

\* the last task was a retrieval (get_order, get_order_details)
RanRetrieval ==
    /\ last.user \in Users
    /\ \/ ClassOf(last.user) = "OrderServiceUser" /\ last.task = "get_order"
       \/ TaskBody(ClassOf(last.user), last.task) = "self.get_order_details()"

\* C1: no list bound to order_ids ever holds more than 100 entries, and a
\* step taken while a list holds 100 entries leaves that list as it is.
C1_AtMost100 ==
    /\ [](\A o \in DOMAIN order_ids : Len(order_ids[o]) <= 100)
    /\ [][\A o \in DOMAIN order_ids :
            Len(order_ids[o]) = 100 => order_ids'[o] = order_ids[o]]_vars

\* a creation that brought a new order id was handled by a user whose list
\* held 100 entries, and the id was not stored
C1_Witness ==
    /\ RanCreate
    /\ IssuesId(last.status, last.body)
    /\ Len(OrderIds(last.user)) = 100
    /\ last.body.order_id \notin Range(OrderIds(last.user))

\* C2 as claimed: the list is local to one instance, so a task of one user
\* changes neither the content nor the length of what any other user sees
\* in self.order_ids (what a user cannot see it cannot select either).
C2_LocalToInstance ==
    [][\A v \in Running :
          v # last'.user =>
             /\ Len(OrderIds(v)') = Len(OrderIds(v))
             /\ Range(OrderIds(v)') = Range(OrderIds(v))]_vars

\* C2 as amended: order_ids is bound in the class body, so all the users of
\* a run read and append to the same list: at every moment every user sees
\* the same entries as every other user.
C2_SharedByAllUsers ==
    \A u \in Running : \A v \in Running : OrderIds(u) = OrderIds(v)

\* an id that one user stored is in the list another user of another class
\* selects from
C2_Witness ==
    /\ RanCreate
    /\ IssuesId(last.status, last.body)
    /\ \E v \in Running :
          /\ ClassOf(v) # ClassOf(last.user)
          /\ last.body.order_id \in Range(OrderIds(v))

\* C3: each of the four FailFastUser tasks marks its response exactly once:
\* success when the status is 400, failure for any other status.
C3_FailFastExpects400 ==
    (last.user \in Users /\ ClassOf(last.user) = "FailFastUser"
        /\ last.task \in FailFastTasks)
    => /\ Len(last.marks) = 1
       /\ (last.marks[1] = "success") <=> (last.status = 400)
       /\ (last.marks[1] = "failure") <=> (last.status # 400)

\* invalid_price got a 200 and marked it failure
C3_Witness ==
    /\ last.user \in Users
    /\ ClassOf(last.user) = "FailFastUser"
    /\ last.task = "invalid_price"
    /\ last.status = 200
    /\ last.marks = <<"failure">>

\* C4: ResilienceTestUser.create_valid_order marks a 200 whose body parses
\* to an object, and every status >= 500, as success, and every other status
\* as failure; a response with a status >= 500 adds no entry to order_ids.
C4_ChaosTolerated ==
    /\ [](RanCreateValidOrder =>
            /\ (last.status = 200 /\ last.body.kind = "dict")
                  => last.marks = <<"success">>
            /\ last.status >= 500 => last.marks = <<"success">>
            /\ (last.status # 200 /\ last.status < 500)
                  => last.marks = <<"failure">>)
    /\ [][(RanCreateValidOrder' /\ last'.status >= 500)
             => order_ids' = order_ids]_vars

\* a 500 whose body carried an order id was marked success and the id is not
\* in the list
C4_Witness ==
    /\ RanCreateValidOrder
    /\ last.status = 500
    /\ Truthy(last.body.order_id)
    /\ last.marks = <<"success">>
    /\ last.body.order_id \notin Range(OrderIds(last.user))

\* C5: a 200 to a create whose body does not parse (response.json() raises,
\* or the value has no order_id lookup) is marked exactly once, as failure;
\* the exception is caught, none reaches the caller, and order_ids is left
\* as it was.  For create_order and create_valid_order alike.
C5_ParseFailureIsOneFailure ==
    /\ []((RanCreate /\ last.status = 200
             /\ last.body.kind \in {"invalid_json", "not_dict"})
          => /\ last.marks = <<"failure">>
             /\ last.caught
             /\ last.raised = "none")
    /\ [][(RanCreate' /\ last'.status = 200
             /\ last'.body.kind \in {"invalid_json", "not_dict"})
          => order_ids' = order_ids]_vars

\* create_order got a 200 whose JSON value is no object while the list held
\* entries, and made the one mark failure
C5_Witness ==
    /\ RanCreateOrder
    /\ last.status = 200
    /\ last.body.kind = "not_dict"
    /\ last.marks = <<"failure">>
    /\ OrderIds(last.user) # <<>>

\* C6: every entry of order_ids is a non-empty order id that a 200 response
\* to POST /order/create carried (the ids 1..created); a step whose response
\* is no 200 carrying such an id leaves order_ids as it was; and a 200 whose
\* object has no order_id, or an empty one, is marked success.
C6_EntriesAreReturnedIds ==
    /\ [](\A o \in DOMAIN order_ids :
             \A i \in 1..Len(order_ids[o]) :
                 Truthy(order_ids[o][i]) /\ order_ids[o][i] \in 1..created)
    /\ []((RanCreate /\ last.status = 200 /\ last.body.kind = "dict"
             /\ ~Truthy(last.body.order_id))
          => last.marks = <<"success">>)
    /\ [][~IssuesId(last'.status, last'.body) => order_ids' = order_ids]_vars

\* create_order got a 200 whose object has no order_id, marked it success,
\* and the list holds what earlier responses returned
C6_Witness ==
    /\ RanCreateOrder
    /\ last.status = 200
    /\ last.body = [kind |-> "dict", order_id |-> NoneValue]
    /\ last.marks = <<"success">>
    /\ Len(OrderIds(last.user)) = 2

\* C7: a retrieval sends exactly one request, GET /order/{id}; the id is an
\* entry of order_ids as it is at that moment when the list is non-empty,
\* the id is "dummy-order-id" exactly when the list is empty, and the
\* retrieval leaves order_ids as it was.
C7_RetrievalPicksCachedId ==
    [][RanRetrieval' =>
        /\ order_ids' = order_ids
        /\ Len(last'.requests) = 1
        /\ last'.requests[1].method = "GET"
        /\ last'.requests[1].path = "/order/{id}"
        /\ OrderIds(last'.user) # <<>>
              => last'.requests[1].order_id \in Range(OrderIds(last'.user))
        /\ (last'.requests[1].order_id = DummyOrderId)
              <=> (OrderIds(last'.user) = <<>>)]_vars

\* get_order_details asked for a cached id that is not the first entry
C7_Witness ==
    /\ RanRetrieval
    /\ ClassOf(last.user) = "MixedWorkloadUser"
    /\ Len(OrderIds(last.user)) >= 3
    /\ last.requests[1].order_id = OrderIds(last.user)[2]

\* C8: StepLoadShape.tick returns 10 users for 0 <= t < 60, 25 for
\* 60 <= t < 120, 50 for 120 <= t < 180, 75 for 180 <= t < 240, 100 for
\* 240 <= t < 300 and None for t >= 300; from one tick to a later one the
\* user count never decreases, and after a None every tick returns None.
C8_StepSchedule ==
    /\ []((shape_class = "StepLoadShape" /\ tick_out.called) =>
            /\ (0 <= run_time /\ run_time < 60)
                  => (~tick_out.stop /\ tick_out.users = 10)
            /\ (60 <= run_time /\ run_time < 120)
                  => (~tick_out.stop /\ tick_out.users = 25)
            /\ (120 <= run_time /\ run_time < 180)
                  => (~tick_out.stop /\ tick_out.users = 50)
            /\ (180 <= run_time /\ run_time < 240)
                  => (~tick_out.stop /\ tick_out.users = 75)
            /\ (240 <= run_time /\ run_time < 300)
                  => (~tick_out.stop /\ tick_out.users = 100)
            /\ run_time >= 300 => tick_out.stop)
    /\ [][(shape_class = "StepLoadShape" /\ tick_out.called) =>
            /\ tick_out.stop => tick_out'.stop
            /\ ~tick_out'.stop => tick_out'.users >= tick_out.users]_vars

\* the tick at t = 300 stopped the test
C8_Witness ==
    /\ shape_class = "StepLoadShape"
    /\ tick_out.called
    /\ run_time = 300
    /\ tick_out.stop

\* C9: SpikeLoadShape.tick returns 10 users for 0 <= t < 30, 100 for
\* 30 <= t < 60, 10 for 60 <= t < 90, 100 for 90 <= t < 120, 10 for
\* 120 <= t < 150 and None for t >= 150; at t = 30, 60, 90 and 120 the user
\* count and the spawn rate are those of the stage that starts there.
C9_SpikeSchedule ==
    (shape_class = "SpikeLoadShape" /\ tick_out.called) =>
        /\ (0 <= run_time /\ run_time < 30)
              => (~tick_out.stop /\ tick_out.users = 10)
        /\ (30 <= run_time /\ run_time < 60)
              => (~tick_out.stop /\ tick_out.users = 100)
        /\ (60 <= run_time /\ run_time < 90)
              => (~tick_out.stop /\ tick_out.users = 10)
        /\ (90 <= run_time /\ run_time < 120)
              => (~tick_out.stop /\ tick_out.users = 100)
        /\ (120 <= run_time /\ run_time < 150)
              => (~tick_out.stop /\ tick_out.users = 10)
        /\ run_time >= 150 => tick_out.stop
        /\ run_time \in {30, 90} => tick_out.spawn_rate = 20
        /\ run_time \in {60, 120} => tick_out.spawn_rate = 10

\* the tick at the boundary t = 30 returned the spike: 100 users at rate 20
C9_Witness ==
    /\ shape_class = "SpikeLoadShape"
    /\ tick_out.called
    /\ run_time = 30
    /\ tick_out.users = 100
    /\ tick_out.spawn_rate = 20

\* C10 as claimed: every run of MixedWorkloadUser's task create_valid_order
\* sends exactly one POST /order/create with 1 to 3 sample items, has the
\* response handled (marked) by the base class, and returns.
C10_MixedCreatesValidOrder ==
    (last.user \in Users /\ ClassOf(last.user) = "MixedWorkloadUser"
        /\ last.task = "create_valid_order")
    => /\ Len(last.requests) = 1
       /\ last.requests[1].method = "POST"
       /\ last.requests[1].path = "/order/create"
       /\ last.requests[1].payload = "sample"
       /\ last.requests[1].nitems \in 1..3
       /\ Len(last.marks) = 1
       /\ last.raised = "none"

\* the requests attempted so far, as service and path
Attempted == [i \in 1..Len(chaos.calls) |-> chaos.calls[i].request]

\* the requests a function's body is to attempt, in order
Planned(fn) ==
    [i \in 1..Len(ChaosBody(fn)) |-> CallToggle(ChaosBody(fn)[i], "ok").request]

\* C11: no ChaosController function lets a failed toggle request (connection
\* error, timeout, body that is no JSON) reach its caller; every function
\* that has not yet returned goes on to its next call whatever failed before,
\* so disable_all_chaos returns having attempted inventory disable and then
\* payment disable, and enable_combined_chaos having attempted inventory
\* enable, inventory slow, payment enable and payment slow, in that order.
C11_ToggleFailuresAreCaught ==
    chaos.fn \in ChaosFunctions =>
        /\ chaos.state # "raised"
        /\ \A i \in 1..Len(chaos.calls) : chaos.calls[i].raised = "none"
        /\ chaos.pc = Len(chaos.calls) + 1
        /\ chaos.state = "running" <=> chaos.pc <= Len(ChaosBody(chaos.fn))
        /\ chaos.state = "returned" => Attempted = Planned(chaos.fn)
        /\ (chaos.state = "returned" /\ chaos.fn = "disable_all_chaos") =>
              Attempted =
                 <<[service |-> "http://localhost:8081",
                    path |-> "/chaos/inventory/disable"],
                   [service |-> "http://localhost:8082",
                    path |-> "/chaos/payment/disable"]>>
        /\ (chaos.state = "returned" /\ chaos.fn = "enable_combined_chaos") =>
              Attempted =
                 <<[service |-> "http://localhost:8081",
                    path |-> "/chaos/inventory/enable"],
                   [service |-> "http://localhost:8081",
                    path |-> "/chaos/inventory/slow"],
                   [service |-> "http://localhost:8082",
                    path |-> "/chaos/payment/enable"],
                   [service |-> "http://localhost:8082",
                    path |-> "/chaos/payment/slow"]>>

\* disable_all_chaos returned after its first request timed out and its
\* second was attempted all the same
C11_Witness ==
    /\ chaos.fn = "disable_all_chaos"
    /\ chaos.state = "returned"
    /\ Len(chaos.calls) = 2
    /\ chaos.calls[1].outcome = "Timeout"
    /\ chaos.calls[1].log = "error"
    /\ chaos.calls[2].request.path = "/chaos/payment/disable"

====
